---- MODULE Spec2Model ----
(***************************************************************************)
(* Model of the brainstormai chat server: the idea formatter               *)
(* (formatResponse), the attempt pipeline (talkAs: model call, JSON block  *)
(* extraction, authorization check, event normalization, calendar call)    *)
(* and the retry loop of the POST /chat route.                             *)
(*                                                                         *)
(* Text is a sequence of lexemes.  A lexeme is one character ("1", ".",    *)
(* "*", "-", a blank, a newline) or one indivisible piece of text that no  *)
(* pattern of the program looks inside: a field label such as              *)
(* "Idea Name:", an opaque word ("w", "N/A"), a fence marker, a fenced     *)
(* JSON body.  A JavaScript substring test is a contiguous-subsequence     *)
(* test on lexemes.  Date-time strings are sequences of characters.        *)
(***************************************************************************)
EXTENDS Integers, Sequences, FiniteSets, TLC

VARIABLES
  \* the server
  userTokensStore,               \* userTokensStore["demoUser123"]
  \* one POST /chat request
  pc,                            \* where the handler is suspended
  input,                         \* req.body.input
  userTokens,                    \* req.userTokens, set by the middleware
  retryCount,
  formattedResponse,
  responseGeneratedSuccessfully,
  rawResponse,                   \* talkAs's rawResponse, kept across its await
  eventDetails,                  \* the argument of createCalendarEvent
  httpStatus,                    \* status of the response sent, 0 before
  responseText,                  \* text of the response sent
  \* the collaborators, as seen by the request
  modelPlan,                     \* what the model call does on each attempt
  attemptLog,                    \* one entry per talkAs call
  waits,                         \* the setTimeout delays awaited
  \* formatResponse on its own
  fmtPc, fmtIn, fmtOut,
  \* talkAs from the model's text to its return or its calendar call
  clsPc, clsIn, clsTokens, clsOut,
  \* POST /chat requests in flight at the same time: each one's req object and
  \* the local variables of its handler
  reqs

chatVars ==
  <<userTokensStore, pc, input, userTokens, retryCount, formattedResponse,
    responseGeneratedSuccessfully, rawResponse, eventDetails, httpStatus,
    responseText, modelPlan, attemptLog, waits>>
fmtVars == <<fmtPc, fmtIn, fmtOut>>
clsVars == <<clsPc, clsIn, clsTokens, clsOut>>
vars == <<chatVars, fmtVars, clsVars, reqs>>

\* Longest text given to formatResponse in SpecFormat.
MaxFmtLen == 4
\* Longest model response given to talkAs in SpecClassify.
MaxClsLen == 5

MAX_RETRIES == 3

Min(S) == CHOOSE x \in S : \A y \in S : x <= y
Max(S) == CHOOSE x \in S : \A y \in S : x >= y

(***************************************************************************)
(* Lexemes                                                                 *)
(***************************************************************************)
\* JavaScript \s
IsWs(t) == t \in {" ", "\n"}

DigitChars == <<"0", "1", "2", "3", "4", "5", "6", "7", "8", "9">>

\* JavaScript \d
IsDigit(t) == \E i \in 1..10 : DigitChars[i] = t

\* The decimal rendering of ${index + 1}
RECURSIVE NumToks(_)
NumToks(k) ==
  IF k < 10 THEN <<DigitChars[k + 1]>>
  ELSE NumToks(k \div 10) \o <<DigitChars[(k % 10) + 1]>>

\* The /i flag of the field patterns: a label in another letter case matches.
Canon(t) ==
  CASE t = "idea name:" -> "Idea Name:"
    [] t = "concept:" -> "Concept:"
    [] t = "SUMMARY:" -> "Summary:"
    [] OTHER -> t

\* String.prototype.includes
Includes(s, pat) ==
  \E i \in 1..(Len(s) - Len(pat) + 1) : SubSeq(s, i, i + Len(pat) - 1) = pat

\* String.prototype.trim
Trim(s) ==
  LET nz == {i \in 1..Len(s) : ~IsWs(s[i])}
      last == CHOOSE i \in nz : \A j \in (i + 1)..Len(s) : IsWs(s[j])
  IN IF nz = {} THEN <<>> ELSE SubSeq(s, Min(nz), last)

\* A lexeme that text.replace(/\s+/g, ' ') keeps.
StartsRun(m) == m.keep

\* text.replace(/\s+/g, ' '): every run of blanks becomes one " ".  The
\* lexemes kept are those that are not blank or that start a run.
CollapseWs(s) ==
  LET marked == [i \in 1..Len(s) |->
                   [tok |-> IF IsWs(s[i]) THEN " " ELSE s[i],
                    keep |-> ~IsWs(s[i]) \/ i = 1 \/ ~IsWs(s[i - 1])]]
      kept == SelectSeq(marked, StartsRun)
  IN [n \in 1..Len(kept) |-> kept[n].tok]

\* Greedy \s* and \d+ : the first position at or after i that is not of the class.
SkipWs(s, i) == Min({j \in i..(Len(s) + 1) : j = Len(s) + 1 \/ ~IsWs(s[j])})
SkipDigits(s, i) == Min({j \in i..(Len(s) + 1) : j = Len(s) + 1 \/ ~IsDigit(s[j])})

(***************************************************************************)
(* formatResponse                                                          *)
(***************************************************************************)
\* /\d+\.\s*Idea Name:/ matched at position i: the index of the match's last
\* lexeme, or 0.  The pattern has no /i flag.
DelimEnd(s, i) ==
  IF i > Len(s) THEN 0
  ELSE IF ~IsDigit(s[i]) THEN 0
  ELSE LET j == SkipDigits(s, i)
       IN IF j = i \/ j > Len(s) THEN 0
          ELSE IF s[j] # "." THEN 0
          ELSE LET k == SkipWs(s, j + 1)
               IN IF k <= Len(s) /\ s[k] = "Idea Name:" THEN k ELSE 0

\* cleanedText.split(/\d+\.\s*Idea Name:/) from position i on: the text up to
\* the leftmost match, then the split of what follows that match.
RECURSIVE SplitFrom(_, _)
SplitFrom(s, i) ==
  LET found == {j \in i..Len(s) : DelimEnd(s, j) > 0}
  IN IF found = {} THEN <<SubSeq(s, i, Len(s))>>
     ELSE <<SubSeq(s, i, Min(found) - 1)>> \o SplitFrom(s, DelimEnd(s, Min(found)) + 1)

\* Mutation: the filter of blank blocks is left out.
NotBlank_NoFilter(b) == TRUE

NotBlank(b) == Trim(b) # <<>>

\* .filter(block => block.trim() !== '')
ideaBlocks(text) == SelectSeq(SplitFrom(Trim(CollapseWs(text)), 1), NotBlank)

NoMatch == [matched |-> FALSE, text |-> <<>>]

\* fullBlock.match(/<label>\s*(.*?)(?=\s*<next>|$)/i): the first occurrence of
\* the label, greedy blanks, then the shortest text followed by the next label
\* or by the end of the block.  next = "" is the pattern /summary:\s*(.*)/i.
FieldMatch(b, label, next) ==
  LET at == {i \in 1..Len(b) : Canon(b[i]) = label}
  IN IF at = {} THEN NoMatch
     ELSE LET st == SkipWs(b, Min(at) + 1)
              en == Min({p \in st..(Len(b) + 1) :
                          \/ p = Len(b) + 1
                          \/ /\ next # ""
                             /\ LET q == SkipWs(b, p)
                                IN q <= Len(b) /\ Canon(b[q]) = next})
          IN [matched |-> TRUE, text |-> SubSeq(b, st, en - 1)]

\* .replace(/[\*\-]/g, '')
IsNotEmphasis(t) == t \notin {"*", "-"}
StripEmphasis(s) == SelectSeq(s, IsNotEmphasis)

NA == <<"N/A">>

OrNA(m) == IF m.matched THEN Trim(m.text) ELSE NA

\* The 8 fields of one idea block (the body of the forEach up to its template).
IdeaRecord(block, index) ==
  LET fullBlock == <<"Idea Name:">> \o Trim(block)
      ideaNameMatch == FieldMatch(fullBlock, "Idea Name:", "Concept:")
  IN [ideaName |-> IF ideaNameMatch.matched
                   THEN Trim(StripEmphasis(ideaNameMatch.text))
                   ELSE <<"Idea", " ">> \o NumToks(index + 1),
      concept |-> OrNA(FieldMatch(fullBlock, "Concept:", "Key Features:")),
      keyFeatures |-> OrNA(FieldMatch(fullBlock, "Key Features:", "Target Market:")),
      targetMarket |-> OrNA(FieldMatch(fullBlock, "Target Market:", "Unique Value Proposition:")),
      usp |-> OrNA(FieldMatch(fullBlock, "Unique Value Proposition:", "Monetization:")),
      monetization |-> OrNA(FieldMatch(fullBlock, "Monetization:", "Potential Challenges/Considerations:")),
      challenges |-> OrNA(FieldMatch(fullBlock, "Potential Challenges/Considerations:", "Summary:")),
      summary |-> OrNA(FieldMatch(fullBlock, "Summary:", ""))]

\* "\n\n  **<label>** " of the template
FieldHead(label) == <<"\n", "\n", " ", " ", "*", "*", label, "*", "*", " ">>

\* The template literal appended to textOutput for one idea.
RenderIdea(r, index) ==
  <<"\n", "*", "*">> \o NumToks(index + 1) \o <<".", " ", "Idea Name:", "*", "*", " ">>
    \o r.ideaName
    \o FieldHead("Concept:") \o r.concept
    \o FieldHead("Key Features:") \o r.keyFeatures
    \o FieldHead("Target Market:") \o r.targetMarket
    \o FieldHead("Unique Value Proposition:") \o r.usp
    \o FieldHead("Monetization:") \o r.monetization
    \o FieldHead("Potential Challenges/Considerations:") \o r.challenges
    \o FieldHead("Summary:") \o r.summary
    \o <<"\n", "\n", "---", "\n">>

RECURSIVE RenderFrom(_, _)
RenderFrom(blocks, i) ==
  IF i > Len(blocks) THEN <<>>
  ELSE RenderIdea(IdeaRecord(blocks[i], i - 1), i - 1) \o RenderFrom(blocks, i + 1)

formatResponse(text) == Trim(RenderFrom(ideaBlocks(text), 1))

(***************************************************************************)
(* talkAs: JSON block extraction and intent test                           *)
(***************************************************************************)
\* A fenced body is one lexeme: a complete text "{...}" that holds no fence.
JsonBodies ==
  {"{cal:iso}", "{cal:compactNeg}", "{cal:compactPos}", "{cal:noTimes}",
   "{cal:null}", "{cal:absent}", "{type:other}", "{malformed}"}

\* "<fence>" stands for the three backticks.  "<fence>json" begins with them,
\* so it also matches the closing fence of the pattern.
IsFence(t) == t \in {"<fence>", "<fence>json"}

\* rawResponse.match(/```json\s*(\{[\s\S]*?\})\s*```/): the leftmost "<fence>json"
\* followed by blanks and a "{", then the shortest text ending in "}" that is
\* followed by blanks and "<fence>".  text is the capture group, jsonMatch[1].
MatchAt(s, i) ==
  IF s[i] # "<fence>json" THEN NoMatch
  ELSE LET j == SkipWs(s, i + 1)
       IN IF j > Len(s) THEN NoMatch
          ELSE IF s[j] \notin JsonBodies THEN NoMatch
          ELSE LET ends == {e \in j..Len(s) :
                              /\ s[e] \in JsonBodies
                              /\ LET k == SkipWs(s, e + 1)
                                 IN k <= Len(s) /\ IsFence(s[k])}
               IN IF ends = {} THEN NoMatch
                  ELSE [matched |-> TRUE, text |-> SubSeq(s, j, Min(ends))]

\* Mutation: the last match is taken, not the first.
jsonMatch_Last(raw) ==
  LET at == {i \in 1..Len(raw) : MatchAt(raw, i).matched}
  IN IF at = {} THEN NoMatch ELSE MatchAt(raw, Max(at))

jsonMatch(raw) ==
  LET at == {i \in 1..Len(raw) : MatchAt(raw, i).matched}
  IN IF at = {} THEN NoMatch ELSE MatchAt(raw, Min(at))

\* Date-time strings, character by character.
Chars2025 == <<"2", "0", "2", "5">>
CompactNeg == Chars2025 \o <<"0", "8", "1", "0", "T", "1", "0", "0", "0", "0", "0", "-", "0", "7", "0", "0">>
CompactPos == Chars2025 \o <<"0", "8", "1", "0", "T", "1", "0", "0", "0", "0", "0", "+", "0", "7", "0", "0">>
CompactEndNeg == Chars2025 \o <<"0", "8", "1", "0", "T", "1", "1", "0", "0", "0", "0", "-", "0", "7", "0", "0">>
CompactEndPos == Chars2025 \o <<"0", "8", "1", "0", "T", "1", "1", "0", "0", "0", "0", "+", "0", "7", "0", "0">>
IsoStart == Chars2025 \o <<"-", "0", "8", "-", "0", "1", "T", "1", "4", ":", "0", "0", ":", "0", "0", "-", "0", "7", ":", "0", "0">>
IsoEnd == Chars2025 \o <<"-", "0", "8", "-", "0", "1", "T", "1", "5", ":", "0", "0", ":", "0", "0", "-", "0", "7", ":", "0", "0">>

NoTime == [has |-> FALSE, dateTime |-> <<>>, timeZone |-> ""]
TimeOf(dt) == [has |-> TRUE, dateTime |-> dt, timeZone |-> "America/Los_Angeles"]

\* JavaScript undefined and null, as values of the eventDetails field
Undefined == [kind |-> "undefined", summary |-> <<>>, start |-> NoTime, end |-> NoTime, timeZone |-> ""]
Null == [kind |-> "null", summary |-> <<>>, start |-> NoTime, end |-> NoTime, timeZone |-> ""]
Details(st, en) ==
  [kind |-> "object", summary |-> <<"Lunch with Sam">>, start |-> st, end |-> en, timeZone |-> ""]

SyntaxError == [ok |-> FALSE, type |-> "", eventDetails |-> Undefined]
Parsed(type, details) == [ok |-> TRUE, type |-> type, eventDetails |-> details]

\* JSON.parse(jsonMatch[1]).  A capture of several lexemes is an object text
\* followed by more text: a SyntaxError.
JSONparse(text) ==
  IF Len(text) # 1 THEN SyntaxError
  ELSE CASE text[1] = "{cal:iso}" -> Parsed("calendar_event", Details(TimeOf(IsoStart), TimeOf(IsoEnd)))
         [] text[1] = "{cal:compactNeg}" -> Parsed("calendar_event", Details(TimeOf(CompactNeg), TimeOf(CompactEndNeg)))
         [] text[1] = "{cal:compactPos}" -> Parsed("calendar_event", Details(TimeOf(CompactPos), TimeOf(CompactEndPos)))
         [] text[1] = "{cal:noTimes}" -> Parsed("calendar_event", Details(NoTime, NoTime))
         [] text[1] = "{cal:null}" -> Parsed("calendar_event", Null)
         [] text[1] = "{cal:absent}" -> Parsed("calendar_event", Undefined)
         [] text[1] = "{type:other}" -> Parsed("business_ideas", Details(TimeOf(IsoStart), TimeOf(IsoEnd)))
         [] OTHER -> SyntaxError

\* parsedResponse.type === "calendar_event" && parsedResponse.eventDetails
IsCalendarEvent(parsedResponse) ==
  /\ parsedResponse.type = "calendar_event"
  /\ parsedResponse.eventDetails.kind = "object"

\* The intent of one response: the match, the parse inside the inner try, and
\* the test of the parsed object.  A SyntaxError is caught by the inner catch.
classify(raw) ==
  LET m == jsonMatch(raw)
  IN IF ~m.matched
     THEN [intent |-> "idea", parseError |-> FALSE, eventDetails |-> Undefined]
     ELSE LET parsedResponse == JSONparse(m.text)
          IN IF ~parsedResponse.ok
             THEN [intent |-> "idea", parseError |-> TRUE, eventDetails |-> Undefined]
             ELSE IF IsCalendarEvent(parsedResponse)
                  THEN [intent |-> "calendar_event", parseError |-> FALSE,
                        eventDetails |-> parsedResponse.eventDetails]
                  ELSE [intent |-> "idea", parseError |-> FALSE, eventDetails |-> Undefined]

(***************************************************************************)
(* talkAs: authorization check and event normalization                     *)
(***************************************************************************)
\* The values of req.userTokens: undefined, tokens without access_token, and
\* two different token sets with one.
TokenValues == {"undefined", "refreshOnly", "tokA", "tokB"}

\* !userAuthTokens || !userAuthTokens.access_token
Unauthorized(userAuthTokens) == userAuthTokens \notin {"tokA", "tokB"}

AuthMsg ==
  <<"I can help schedule that, but I need access to your Google Calendar. Please connect your Google account first by visiting /auth/google/calendar.">>

\* Intl.DateTimeFormat().resolvedOptions().timeZone of the server
currentTimeZone == "UTC"

\* defaultStart.toISOString() and defaultEnd.toISOString(): tomorrow 09:00 and
\* 10:00 server time, for a server in UTC whose clock reads 2025-08-01.
DefaultStartIso == Chars2025 \o <<"-", "0", "8", "-", "0", "2", "T", "0", "9", ":", "0", "0", ":", "0", "0", ".", "0", "0", "0", "Z">>
DefaultEndIso == Chars2025 \o <<"-", "0", "8", "-", "0", "2", "T", "1", "0", ":", "0", "0", ":", "0", "0", ".", "0", "0", "0", "Z">>

\* dt.substring(a, b), a <= b
Substring(dt, a, b) == SubSeq(dt, a + 1, IF b < Len(dt) THEN b ELSE Len(dt))

\* The rewrite of one dateTime (the two if statements share it).
RepairDateTime(dt) ==
  IF dt # <<>> /\ ~Includes(dt, <<"-">>) /\ ~Includes(dt, <<":">>)
  THEN Substring(dt, 0, 4) \o <<"-">> \o Substring(dt, 4, 6) \o <<"-">> \o Substring(dt, 6, 8)
         \o <<"T">> \o Substring(dt, 9, 11) \o <<":">> \o Substring(dt, 11, 13)
         \o <<":">> \o Substring(dt, 13, 15) \o Substring(dt, 15, Len(dt))
  ELSE dt

\* Default times, then the date repair of start and end.
normalize(details) ==
  LET zone == IF details.timeZone # "" THEN details.timeZone ELSE currentTimeZone
      filled ==
        IF \/ ~details.start.has
           \/ ~details.end.has
           \/ details.start.dateTime = <<>>
           \/ details.end.dateTime = <<>>
        THEN [details EXCEPT
                !.start = [has |-> TRUE, dateTime |-> DefaultStartIso, timeZone |-> zone],
                !.end = [has |-> TRUE, dateTime |-> DefaultEndIso, timeZone |-> zone]]
        ELSE details
  IN [filled EXCEPT !.start.dateTime = RepairDateTime(@),
                    !.end.dateTime = RepairDateTime(@)]

\* The value talkAs resolves to, or the error it rejects with.
Returned(text) == [threw |-> FALSE, text |-> text]
Thrown(message) == [threw |-> TRUE, text |-> message]

\* The message of the SyntaxError JSON.parse throws.
ParseErrorMessage == <<"Unexpected token">>

\* Mutation: the inner catch throws the error again.
talkAsInnerCatch_Rethrow(raw, message) == Thrown(message)

\* The inner catch (of a SyntaxError, or of the error createCalendarEvent
\* rejects with): it logs a warning and talkAs goes on to format the raw
\* response and return it.
talkAsInnerCatch(raw, message) == Returned(formatResponse(raw))

\* talkAs from the model's text to its first return or to its await of
\* createCalendarEvent.  parsed is parsedResponse.eventDetails, eventDetails
\* the argument of createCalendarEvent, formatted the argument of formatResponse.
talkAsOnText(text, userAuthTokens) ==
  LET c == classify(text)
  IN IF c.intent = "calendar_event"
     THEN IF Unauthorized(userAuthTokens)
          THEN [next |-> "return", threw |-> FALSE, branch |-> "auth", text |-> AuthMsg,
                parsed |-> c.eventDetails, eventDetails |-> Undefined, formatted |-> <<>>]
          ELSE [next |-> "await", threw |-> FALSE, branch |-> "calendar", text |-> <<>>,
                parsed |-> c.eventDetails, eventDetails |-> normalize(c.eventDetails),
                formatted |-> <<>>]
     ELSE LET r == IF c.parseError THEN talkAsInnerCatch(text, ParseErrorMessage)
                   ELSE Returned(formatResponse(text))
          IN [next |-> "return", threw |-> r.threw, branch |-> "idea", text |-> r.text,
              parsed |-> Undefined, eventDetails |-> Undefined, formatted |-> text]

\* Mutation: the confirmation leaves out the link.
EventConfirmation_NoLink(event) ==
  <<"I've successfully added", " ", "\"">> \o event.summary
    \o <<"\"", " ", "to your Google Calendar!">>

\* `I've successfully added "${event.summary}" to your Google Calendar! ...`
EventConfirmation(event) ==
  <<"I've successfully added", " ", "\"">> \o event.summary
    \o <<"\"", " ", "to your Google Calendar! You can view it here:", " ">> \o event.htmlLink

\* model.generateContent rejects: the outer catch returns
\* `<warning sign> ${persona} failed to respond: ${err.message}`, persona "Ada".
talkAsOuterCatch(message) ==
  Returned(<<"(!)", " ", "Ada", " ", "failed to respond:", " ">> \o message)

(***************************************************************************)
(* POST /chat                                                              *)
(***************************************************************************)
SuccessPhrase == <<"I've successfully added">>
FailureMarker == <<"1", ".", " ", "Idea Name:", " ", "N/A">>

\* Mutation: the test of the confirmation phrase is left out.
SuccessPredicate_MarkerOnly(text) == ~Includes(text, FailureMarker)

\* Mutation: && in place of ||.
SuccessPredicate_And(text) == Includes(text, SuccessPhrase) /\ ~Includes(text, FailureMarker)

\* formattedResponse.includes("I've successfully added") ||
\* !formattedResponse.includes("1. Idea Name: N/A")
SuccessPredicate(text) == Includes(text, SuccessPhrase) \/ ~Includes(text, FailureMarker)

\* Mutation: <= in place of <.
LoopGuard_OffByOne(count, ok) == count <= MAX_RETRIES /\ ~ok

\* retryCount < MAX_RETRIES && !responseGeneratedSuccessfully
LoopGuard(count, ok) == count < MAX_RETRIES /\ ~ok

\* setTimeout(resolve, 1000 * retryCount)
BackoffMs(count) == 1000 * count

\* !input || typeof input !== "string"
InvalidInput(in) == in \in {"undefined", "nonString", ""}

InvalidInputText == <<"Invalid input provided.">>

ExhaustedText ==
  <<"Failed to get a complete AI response after", " ">> \o NumToks(MAX_RETRIES)
    \o <<" ", "attempts. Please try again or refine your request.">>

ApiErrorText(message) ==
  <<"Failed to get a complete AI response after", " ">> \o NumToks(MAX_RETRIES)
    \o <<" ", "attempts due to an API error:", " ">>
    \o (IF message = <<>> THEN <<"Please check your server or API key.">> ELSE message)

NoEvent == [summary |-> <<>>, htmlLink |-> <<>>]

\* One talkAs call: how the model call ended and with which text (raw), the
\* branch taken, how the calendar call ended and with which event, and the
\* text talkAs returned.
NewAttempt ==
  [model |-> "pending", raw |-> <<>>, branch |-> "none", cal |-> "none",
   event |-> NoEvent, text |-> <<>>]

\* The last entry of the log, changed.
Logged(model, raw, branch, cal, event, text) ==
  [attemptLog EXCEPT ![Len(attemptLog)] =
     [model |-> model, raw |-> raw, branch |-> branch, cal |-> cal, event |-> event,
      text |-> text]]

\* The while test with the given loop state, and what follows it: the next
\* talkAs call (up to its await of the model), or the response after the loop.
LoopTest(count, ok, text, log, w) ==
  /\ retryCount' = count
  /\ responseGeneratedSuccessfully' = ok
  /\ formattedResponse' = text
  /\ waits' = w
  /\ IF LoopGuard(count, ok)
     THEN /\ pc' = "awaitModel"
          /\ attemptLog' = Append(log, NewAttempt)
          /\ httpStatus' = 0
          /\ responseText' = <<>>
     ELSE /\ pc' = "done"
          /\ attemptLog' = log
          /\ IF ~ok
             THEN httpStatus' = 500 /\ responseText' = ExhaustedText
             ELSE httpStatus' = 200 /\ responseText' = text

\* The body of the while loop after talkAs has settled with result.
OnTalkAs(result, log) ==
  IF ~result.threw
  THEN IF SuccessPredicate(result.text)
       THEN LoopTest(retryCount, TRUE, result.text, log, waits)
       ELSE /\ retryCount' = retryCount + 1
            /\ formattedResponse' = result.text
            /\ waits' = Append(waits, BackoffMs(retryCount + 1))
            /\ pc' = "backoff"
            /\ attemptLog' = log
            /\ UNCHANGED <<responseGeneratedSuccessfully, httpStatus, responseText>>
  ELSE /\ retryCount' = retryCount + 1
       /\ attemptLog' = log
       /\ UNCHANGED <<formattedResponse, responseGeneratedSuccessfully>>
       /\ IF retryCount + 1 >= MAX_RETRIES
          THEN /\ httpStatus' = 500
               /\ responseText' = ApiErrorText(result.text)
               /\ pc' = "done"
               /\ UNCHANGED waits
          ELSE /\ waits' = Append(waits, BackoffMs(retryCount + 1))
               /\ pc' = "backoff"
               /\ UNCHANGED <<httpStatus, responseText>>

\* Responses of the language model.
IdeaText(n) ==
  <<n, ".", " ", "Idea Name:", " ", "w", "\n", "Concept:", " ", "w", "\n",
    "Key Features:", " ", "w", "\n", "Target Market:", " ", "w", "\n",
    "Unique Value Proposition:", " ", "w", "\n", "Monetization:", " ", "w", "\n",
    "Potential Challenges/Considerations:", " ", "w", "\n", "Summary:", " ", "w">>

Fenced(body) == <<"<fence>json", "\n", body, "\n", "<fence>">>

ModelTexts ==
  {<<>>, <<" ", "\n">>, <<"w", " ", "w">>,
   <<"1", ".", " ", "-", "Idea Name:", " ", "N/A">>,
   IdeaText("1") \o <<"\n", "\n">> \o IdeaText("2"),
   <<"w", "\n">> \o Fenced("{cal:iso}"),
   <<"1", ".", " ", "-", "Idea Name:", " ", "N/A", "\n">> \o Fenced("{cal:iso}"),
   Fenced("{type:other}") \o <<"\n">> \o Fenced("{cal:iso}")}
    \cup {Fenced(body) : body \in JsonBodies}

ModelErrors == {<<"fetch failed">>}
CalendarErrors == {<<"invalid_grant">>}
CreatedEvents ==
  {[summary |-> <<"Lunch with Sam">>, htmlLink |-> <<"https://calendar/e1">>],
   [summary |-> <<"Meeting">>, htmlLink |-> <<"https://calendar/e2">>],
   [summary |-> FailureMarker, htmlLink |-> <<"https://calendar/e3">>]}

Inputs == {"undefined", "nonString", "", "Schedule lunch with Sam tomorrow at noon"}
Plans == [1..MAX_RETRIES -> {"return", "throw"}]

Planned(what) ==
  Len(attemptLog) \in DOMAIN modelPlan => modelPlan[Len(attemptLog)] = what

\* The requests in flight at the same time.
Requests == {"r1", "r2"}

\* A request slot before a request arrives.  tokensUsed is the userAuthTokens
\* argument of each talkAs call, storeRead the value the middleware read.
NoRequest ==
  [pc |-> "idle", input |-> "undefined", userTokens |-> "undefined",
   storeRead |-> "undefined", retryCount |-> 0, formattedResponse |-> <<>>,
   responseGeneratedSuccessfully |-> FALSE, rawResponse |-> <<>>,
   httpStatus |-> 0, responseText |-> <<>>, tokensUsed |-> <<>>, waits |-> <<>>]

ReqsOff == reqs = [q \in Requests |-> NoRequest]

InitChat ==
  /\ userTokensStore = "undefined"
  /\ pc = "idle"
  /\ input = "undefined"
  /\ userTokens = "undefined"
  /\ retryCount = 0
  /\ formattedResponse = <<>>
  /\ responseGeneratedSuccessfully = FALSE
  /\ rawResponse = <<>>
  /\ eventDetails = Undefined
  /\ httpStatus = 0
  /\ responseText = <<>>
  /\ modelPlan = [i \in 1..MAX_RETRIES |-> "return"]
  /\ attemptLog = <<>>
  /\ waits = <<>>

FmtOff == fmtPc = "off" /\ fmtIn = <<>> /\ fmtOut = <<>>
ClsOff == clsPc = "off" /\ clsIn = <<>> /\ clsTokens = "undefined" /\ clsOut = talkAsOnText(<<>>, "undefined")

\* GET /oauth2callback: without a code, or when the token exchange fails, the
\* store is left alone; otherwise the tokens obtained are stored.
OAuthCallback ==
  /\ \E got \in {"no code", "error", "refreshOnly", "tokA", "tokB"} :
       userTokensStore' = IF got \in {"no code", "error"} THEN userTokensStore ELSE got
  /\ UNCHANGED <<pc, input, userTokens, retryCount, formattedResponse,
                 responseGeneratedSuccessfully, rawResponse, eventDetails, httpStatus,
                 responseText, modelPlan, attemptLog, waits>>
  /\ UNCHANGED <<fmtVars, clsVars, reqs>>

\* A POST /chat arrives: the middleware, the input check, the loop variables
\* and the first while test.
ChatRequest ==
  /\ pc \in {"idle", "done"}
  /\ \E in \in Inputs, plan \in Plans :
       /\ input' = in
       /\ modelPlan' = plan
       /\ userTokens' = userTokensStore
       /\ rawResponse' = <<>>
       /\ eventDetails' = Undefined
       /\ IF InvalidInput(in)
          THEN /\ httpStatus' = 400
               /\ responseText' = InvalidInputText
               /\ pc' = "done"
               /\ retryCount' = 0
               /\ formattedResponse' = <<>>
               /\ responseGeneratedSuccessfully' = FALSE
               /\ attemptLog' = <<>>
               /\ waits' = <<>>
          ELSE LoopTest(0, FALSE, <<>>, <<>>, <<>>)
  /\ UNCHANGED <<userTokensStore, fmtVars, clsVars, reqs>>

\* model.generateContent resolves with a text.
ModelReturns ==
  /\ pc = "awaitModel"
  /\ Planned("return")
  /\ \E text \in ModelTexts :
       LET r == talkAsOnText(text, userTokens)
       IN /\ rawResponse' = text
          /\ IF r.next = "await"
             THEN /\ pc' = "awaitCalendar"
                  /\ eventDetails' = r.eventDetails
                  /\ attemptLog' = Logged("returned", text, r.branch, "pending", NoEvent, <<>>)
                  /\ UNCHANGED <<retryCount, formattedResponse, responseGeneratedSuccessfully,
                                 httpStatus, responseText, waits>>
             ELSE /\ OnTalkAs([threw |-> r.threw, text |-> r.text],
                              Logged("returned", text, r.branch, "none", NoEvent, r.text))
                  /\ UNCHANGED eventDetails
  /\ UNCHANGED <<userTokensStore, input, userTokens, modelPlan, fmtVars, clsVars, reqs>>

\* model.generateContent rejects.
ModelThrows ==
  /\ pc = "awaitModel"
  /\ Planned("throw")
  /\ \E message \in ModelErrors :
       LET result == talkAsOuterCatch(message)
       IN OnTalkAs(result, Logged("threw", <<>>, "none", "none", NoEvent, result.text))
  /\ UNCHANGED <<userTokensStore, input, userTokens, modelPlan, rawResponse, eventDetails,
                 fmtVars, clsVars, reqs>>

\* createCalendarEvent resolves with the created event.
CalendarReturns ==
  /\ pc = "awaitCalendar"
  /\ \E event \in CreatedEvents :
       LET text == EventConfirmation(event)
       IN OnTalkAs(Returned(text), Logged("returned", rawResponse, "calendar", "returned", event, text))
  /\ UNCHANGED <<userTokensStore, input, userTokens, modelPlan, rawResponse, eventDetails,
                 fmtVars, clsVars, reqs>>

\* createCalendarEvent rejects.
CalendarThrows ==
  /\ pc = "awaitCalendar"
  /\ \E message \in CalendarErrors :
       LET result == talkAsInnerCatch(rawResponse, message)
       IN OnTalkAs(result, Logged("returned", rawResponse, "calendar", "threw", NoEvent, result.text))
  /\ UNCHANGED <<userTokensStore, input, userTokens, modelPlan, rawResponse, eventDetails,
                 fmtVars, clsVars, reqs>>

\* The back-off timer fires: the while test again.
BackoffElapsed ==
  /\ pc = "backoff"
  /\ LoopTest(retryCount, responseGeneratedSuccessfully, formattedResponse, attemptLog, waits)
  /\ UNCHANGED <<userTokensStore, input, userTokens, modelPlan, rawResponse, eventDetails,
                 fmtVars, clsVars, reqs>>

Init == InitChat /\ FmtOff /\ ClsOff /\ ReqsOff

Next ==
  \/ OAuthCallback
  \/ ChatRequest
  \/ ModelReturns
  \/ ModelThrows
  \/ CalendarReturns
  \/ CalendarThrows
  \/ BackoffElapsed

Spec == Init /\ [][Next]_vars

(***************************************************************************)
(* formatResponse applied to every text of at most MaxFmtLen lexemes       *)
(***************************************************************************)
FmtAlphabet == {"1", ".", " ", "\n", "Idea Name:", "idea name:", "Concept:", "-", "w"}

RECURSIVE TextsUpTo(_, _)
TextsUpTo(A, n) ==
  IF n = 0 THEN {<<>>}
  ELSE LET shorter == TextsUpTo(A, n - 1)
       IN shorter \cup {Append(s, t) : s \in {x \in shorter : Len(x) = n - 1}, t \in A}

InitFormat ==
  /\ fmtPc = "start"
  /\ fmtIn \in TextsUpTo(FmtAlphabet, MaxFmtLen)
  /\ fmtOut = <<>>
  /\ InitChat
  /\ ClsOff
  /\ ReqsOff

Format ==
  /\ fmtPc = "start"
  /\ fmtOut' = formatResponse(fmtIn)
  /\ fmtPc' = "done"
  /\ UNCHANGED <<fmtIn, chatVars, clsVars, reqs>>

NextFormat == Format

SpecFormat == InitFormat /\ [][NextFormat]_vars

(***************************************************************************)
(* formatResponse applied to responses of 3 idea blocks with all 8 labels  *)
(***************************************************************************)
FieldLabels ==
  <<"Concept:", "Key Features:", "Target Market:", "Unique Value Proposition:",
    "Monetization:", "Potential Challenges/Considerations:", "Summary:">>

IdeaNames == <<<<"A">>, <<"B">>, <<"C">>>>

\* One labelled field after the idea name: a new line, the bullet, the label
\* between its emphasis marks, and the content.
FieldText(label, em, bullet, content) ==
  <<"\n">> \o bullet \o em \o <<label>> \o em \o <<" ">> \o content

\* One idea block in the structure the prompt asks for.  num is the number's
\* digits, sp the text between "." and the label, em the emphasis marks
\* around each label ("**" in the prompt), bullet what starts a field's line.
IdeaBlockText(num, name, sp, em, bullet, content) ==
  em \o num \o <<".">> \o sp \o <<"Idea Name:">> \o em \o <<" ">> \o name
    \o FieldText(FieldLabels[1], em, bullet, content)
    \o FieldText(FieldLabels[2], em, bullet, content)
    \o FieldText(FieldLabels[3], em, bullet, content)
    \o FieldText(FieldLabels[4], em, bullet, content)
    \o FieldText(FieldLabels[5], em, bullet, content)
    \o FieldText(FieldLabels[6], em, bullet, content)
    \o FieldText(FieldLabels[7], em, bullet, content)

Numberings ==
  {<<<<"1">>, <<"2">>, <<"3">>>>, <<<<"1">>, <<"1">>, <<"1">>>>,
   <<<<"1", "0">>, <<"1", "1">>, <<"1", "2">>>>}

\* A response of 3 idea blocks after a preamble pre.
ThreeIdeas(pre, nums, sp, em, bullet, content) ==
  pre \o IdeaBlockText(nums[1], IdeaNames[1], sp, em, bullet, content) \o <<"\n", "\n">>
      \o IdeaBlockText(nums[2], IdeaNames[2], sp, em, bullet, content) \o <<"\n", "\n">>
      \o IdeaBlockText(nums[3], IdeaNames[3], sp, em, bullet, content)

ThreeIdeaTexts ==
  {ThreeIdeas(pre, nums, sp, em, bullet, content) :
     pre \in {<<>>, <<"w", "\n">>},
     nums \in Numberings,
     sp \in {<<>>, <<" ">>},
     em \in {<<>>, <<"*", "*">>},
     bullet \in {<<>>, <<"-", " ">>},
     content \in {<<"w">>, <<"w", " ", "w">>}}

InitIdeas ==
  /\ fmtPc = "start"
  /\ fmtIn \in ThreeIdeaTexts
  /\ fmtOut = <<>>
  /\ InitChat
  /\ ClsOff
  /\ ReqsOff

SpecIdeas == InitIdeas /\ [][NextFormat]_vars

(***************************************************************************)
(* talkAs applied to every model response of at most MaxClsLen lexemes     *)
(***************************************************************************)
ClsAlphabet ==
  {"<fence>json", "<fence>", "\n", "{cal:iso}", "{cal:null}", "{type:other}", "{malformed}"}

InitClassify ==
  /\ clsPc = "start"
  /\ clsIn \in TextsUpTo(ClsAlphabet, MaxClsLen)
  /\ clsTokens \in {"undefined", "tokA"}
  /\ clsOut = talkAsOnText(<<>>, "undefined")
  /\ InitChat
  /\ FmtOff
  /\ ReqsOff

Classify ==
  /\ clsPc = "start"
  /\ clsOut' = talkAsOnText(clsIn, clsTokens)
  /\ clsPc' = "done"
  /\ UNCHANGED <<clsIn, clsTokens, chatVars, fmtVars, reqs>>

NextClassify == Classify

SpecClassify == InitClassify /\ [][NextClassify]_vars

(***************************************************************************)
(* POST /chat requests in flight at the same time                          *)
(***************************************************************************)
\* Mutation: every talkAs call reads the token store.
TokensForAttempt_ReadStore(req, store) == store

\* The third argument of talkAs("Ada", input, req.userTokens)
TokensForAttempt(req, store) == req.userTokens

\* The while test of request req with the given loop state, and what follows
\* it: the next talkAs call, or the response after the loop.
LoopTestOf(req, count, ok, text, store) ==
  LET r == [req EXCEPT !.retryCount = count,
                       !.responseGeneratedSuccessfully = ok,
                       !.formattedResponse = text]
  IN IF LoopGuard(count, ok)
     THEN [r EXCEPT !.pc = "awaitModel",
                    !.tokensUsed = Append(@, TokensForAttempt(req, store)),
                    !.httpStatus = 0,
                    !.responseText = <<>>]
     ELSE [r EXCEPT !.pc = "done",
                    !.httpStatus = IF ok THEN 200 ELSE 500,
                    !.responseText = IF ok THEN text ELSE ExhaustedText]

\* The body of the while loop of request req after talkAs has settled.
OnTalkAsOf(req, result, store) ==
  IF ~result.threw
  THEN IF SuccessPredicate(result.text)
       THEN LoopTestOf(req, req.retryCount, TRUE, result.text, store)
       ELSE [req EXCEPT !.retryCount = @ + 1,
                        !.formattedResponse = result.text,
                        !.waits = Append(@, BackoffMs(req.retryCount + 1)),
                        !.pc = "backoff"]
  ELSE IF req.retryCount + 1 >= MAX_RETRIES
       THEN [req EXCEPT !.retryCount = @ + 1,
                        !.httpStatus = 500,
                        !.responseText = ApiErrorText(result.text),
                        !.pc = "done"]
       ELSE [req EXCEPT !.retryCount = @ + 1,
                        !.waits = Append(@, BackoffMs(req.retryCount + 1)),
                        !.pc = "backoff"]

\* Responses of the language model to the requests in flight: ideas, a text
\* that formats to the failure marker, and a calendar event.
ConcurrentTexts ==
  {<<"w", " ", "w">>, <<"1", ".", " ", "-", "Idea Name:", " ", "N/A">>, Fenced("{cal:iso}")}

ConcurrentInputs == {"", "Schedule lunch with Sam tomorrow at noon"}

\* The userAuthTokens of the talkAs call request q is in.
TokensInUse(q) == reqs[q].tokensUsed[Len(reqs[q].tokensUsed)]

\* A POST /chat arrives as request q: the middleware, the input check, the
\* loop variables and the first while test.
Arrives(q) ==
  /\ reqs[q].pc \in {"idle", "done"}
  /\ \E in \in ConcurrentInputs :
       LET req == [NoRequest EXCEPT !.input = in,
                                    !.userTokens = userTokensStore,
                                    !.storeRead = userTokensStore]
       IN reqs' = [reqs EXCEPT ![q] =
                     IF InvalidInput(in)
                     THEN [req EXCEPT !.pc = "done",
                                      !.httpStatus = 400,
                                      !.responseText = InvalidInputText]
                     ELSE LoopTestOf(req, 0, FALSE, <<>>, userTokensStore)]
  /\ UNCHANGED <<chatVars, fmtVars, clsVars>>

\* model.generateContent of request q resolves with a text.
ModelReturnsTo(q) ==
  /\ reqs[q].pc = "awaitModel"
  /\ \E text \in ConcurrentTexts :
       LET r == talkAsOnText(text, TokensInUse(q))
           req == [reqs[q] EXCEPT !.rawResponse = text]
       IN reqs' = [reqs EXCEPT ![q] =
                     IF r.next = "await"
                     THEN [req EXCEPT !.pc = "awaitCalendar"]
                     ELSE OnTalkAsOf(req, [threw |-> r.threw, text |-> r.text], userTokensStore)]
  /\ UNCHANGED <<chatVars, fmtVars, clsVars>>

\* model.generateContent of request q rejects.
ModelThrowsTo(q) ==
  /\ reqs[q].pc = "awaitModel"
  /\ \E message \in ModelErrors :
       reqs' = [reqs EXCEPT ![q] = OnTalkAsOf(reqs[q], talkAsOuterCatch(message), userTokensStore)]
  /\ UNCHANGED <<chatVars, fmtVars, clsVars>>

\* createCalendarEvent of request q resolves with the created event.
CalendarReturnsTo(q) ==
  /\ reqs[q].pc = "awaitCalendar"
  /\ \E event \in CreatedEvents :
       reqs' = [reqs EXCEPT ![q] =
                  OnTalkAsOf(reqs[q], Returned(EventConfirmation(event)), userTokensStore)]
  /\ UNCHANGED <<chatVars, fmtVars, clsVars>>

\* createCalendarEvent of request q rejects.
CalendarThrowsTo(q) ==
  /\ reqs[q].pc = "awaitCalendar"
  /\ \E message \in CalendarErrors :
       reqs' = [reqs EXCEPT ![q] =
                  OnTalkAsOf(reqs[q], talkAsInnerCatch(reqs[q].rawResponse, message), userTokensStore)]
  /\ UNCHANGED <<chatVars, fmtVars, clsVars>>

\* The back-off timer of request q fires: the while test again.
BackoffElapsedFor(q) ==
  /\ reqs[q].pc = "backoff"
  /\ reqs' = [reqs EXCEPT ![q] =
                LoopTestOf(reqs[q], reqs[q].retryCount, reqs[q].responseGeneratedSuccessfully,
                           reqs[q].formattedResponse, userTokensStore)]
  /\ UNCHANGED <<chatVars, fmtVars, clsVars>>

NextConcurrent ==
  \/ OAuthCallback
  \/ \E q \in Requests : Arrives(q)
  \/ \E q \in Requests : ModelReturnsTo(q)
  \/ \E q \in Requests : ModelThrowsTo(q)
  \/ \E q \in Requests : CalendarReturnsTo(q)
  \/ \E q \in Requests : CalendarThrowsTo(q)
  \/ \E q \in Requests : BackoffElapsedFor(q)

SpecConcurrent == Init /\ [][NextConcurrent]_vars

(***************************************************************************)
(* Properties                                                              *)
(***************************************************************************)
Accepted == ~InvalidInput(input)
Succeeded == pc = "done" /\ Accepted /\ httpStatus = 200
Exhausted == pc = "done" /\ Accepted /\ httpStatus = 500
LastAttempt == Len(attemptLog)

\* Model responses that are one fenced, valid calendar_event object with
\* eventDetails, alone or after a line of prose.
CalendarTexts ==
  {Fenced(body) : body \in {"{cal:iso}", "{cal:compactNeg}", "{cal:compactPos}", "{cal:noTimes}"}}
    \cup {<<"w", "\n">> \o Fenced("{cal:iso}")}

HasAccessToken == userTokens \in {"tokA", "tokB"}

\* C1: when the model call throws on the first two attempts of a request and
\* returns on the third, the request makes exactly three attempts, waits
\* 1000 ms and then 2000 ms, and ends Succeeded with the text of the third
\* attempt.
C1_ThrowTwiceThenSucceed ==
  (pc = "done" /\ Accepted /\ modelPlan = <<"throw", "throw", "return">>) =>
    /\ LastAttempt = 3
    /\ waits = <<1000, 2000>>
    /\ httpStatus = 200
    /\ attemptLog[3].model = "returned"
    /\ responseText = attemptLog[3].text

\* C2: an attempt whose calendar call throws is a failed attempt: it is
\* counted in retryCount, the request does not end Succeeded on it, and when
\* it is the last attempt the request ends Exhausted after MAX_RETRIES
\* failures.
C2_CalendarErrorIsRetried ==
  \A k \in DOMAIN attemptLog :
    attemptLog[k].cal = "threw" =>
      /\ retryCount >= k
      /\ ~(Succeeded /\ k = LastAttempt)
      /\ (pc = "done" /\ k = LastAttempt) => (httpStatus = 500 /\ retryCount = MAX_RETRIES)

\* C3: an attempt whose response is a calendar_event intent, in a request
\* without an access token, is the request's last attempt: the request ends
\* Succeeded with the authorization text at once, after exactly one attempt when
\* it is the first, and the request never calls createCalendarEvent.
C3_NoTokenAuthorizationText ==
  \A k \in DOMAIN attemptLog :
    (attemptLog[k].raw \in CalendarTexts /\ ~HasAccessToken) =>
      /\ k = LastAttempt
      /\ Succeeded
      /\ responseText = AuthMsg
      /\ retryCount = k - 1
      /\ Len(waits) = k - 1
      /\ \A j \in DOMAIN attemptLog : attemptLog[j].cal = "none"

C3_Witness ==
  /\ Succeeded
  /\ LastAttempt = 1
  /\ attemptLog[1].raw \in CalendarTexts
  /\ userTokens = "refreshOnly"
  /\ responseText = AuthMsg

\* C4: an attempt whose response is a calendar_event intent, in a request with
\* an access token, and whose calendar call returns an event, is the request's
\* last attempt: the request ends Succeeded with a text that holds the event's
\* summary and link, with no wait or attempt after it.
C4_EventCreatedSucceeds ==
  \A k \in DOMAIN attemptLog :
    (attemptLog[k].raw \in CalendarTexts /\ HasAccessToken /\ attemptLog[k].cal = "returned") =>
      /\ k = LastAttempt
      /\ Succeeded
      /\ Includes(responseText, attemptLog[k].event.summary)
      /\ Includes(responseText, attemptLog[k].event.htmlLink)
      /\ attemptLog[k].event \in CreatedEvents
      /\ retryCount = k - 1
      /\ Len(waits) = k - 1

C4_Witness ==
  /\ Succeeded
  /\ LastAttempt = 1
  /\ attemptLog[1].raw \in CalendarTexts
  /\ attemptLog[1].cal = "returned"
  /\ Includes(responseText, <<"https://calendar/e1">>)

\* C5: a request starts with retryCount = 0, calls talkAs at most MAX_RETRIES
\* times, is never stuck while it waits, and when it is done it has ended in
\* exactly one of Succeeded (status 200, the candidate text) and Exhausted
\* (status 500, an error text).
C5_BoundedAttemptsOneResult ==
  /\ LastAttempt <= MAX_RETRIES
  /\ retryCount \in 0..MAX_RETRIES
  /\ (pc = "awaitModel" /\ LastAttempt = 1) => retryCount = 0
  /\ pc \in {"awaitModel", "awaitCalendar", "backoff"} =>
       ENABLED (ModelReturns \/ ModelThrows \/ CalendarReturns \/ CalendarThrows \/ BackoffElapsed)
  /\ (pc = "done" /\ Accepted) =>
       /\ LastAttempt >= 1
       /\ \/ /\ httpStatus = 200
             /\ responseGeneratedSuccessfully
             /\ responseText = formattedResponse
             /\ responseText = attemptLog[LastAttempt].text
          \/ /\ httpStatus = 500
             /\ ~responseGeneratedSuccessfully
             /\ retryCount = MAX_RETRIES
             /\ LastAttempt = MAX_RETRIES
             /\ responseText = ExhaustedText

C5_Witness == Exhausted /\ LastAttempt = MAX_RETRIES /\ waits = <<1000, 2000, 3000>>

\* C6: an attempt in which formatResponse found no idea block (its output is
\* the empty text) is a failed attempt: it is counted in retryCount and the
\* request does not end Succeeded on it.
C6_EmptyFormatIsRetried ==
  \A k \in DOMAIN attemptLog :
    (attemptLog[k].branch = "idea" /\ attemptLog[k].text = <<>>) =>
      /\ retryCount >= k
      /\ ~(Succeeded /\ k = LastAttempt)

\* "<number>. Idea Name:" occurs in the text: digits, a period, blanks or
\* none, and the label, in this letter case.
HasIdeaLabel(s) ==
  \E i \in 1..Len(s), k \in 1..Len(s) :
    /\ i + 1 < k
    /\ IsDigit(s[i])
    /\ s[i + 1] = "."
    /\ \A m \in (i + 2)..(k - 1) : IsWs(s[m])
    /\ s[k] = "Idea Name:"

IsBlank(s) == \A i \in 1..Len(s) : IsWs(s[i])

\* The rendered records of an output: each ends with the rule "---".
RecordCount(out) == Cardinality({i \in 1..Len(out) : out[i] = "---"})

Repaired == Chars2025 \o <<"-", "0", "8", "-", "1", "0", "T", "1", "0", ":", "0", "0", ":", "0", "0", "-", "0", "7", "0", "0">>

\* C8: the date repair maps the start.dateTime "20250810T100000-0700" of the
\* parsed eventDetails to "2025-08-10T10:00:00-0700" in the eventDetails given
\* to createCalendarEvent.
C8_CompactDateRepaired ==
  (pc = "awaitCalendar" /\ rawResponse = Fenced("{cal:compactNeg}")) =>
    eventDetails.start.dateTime = Repaired

\* A fenced JSON object at position j: a body after "<fence>json" and before a
\* closing fence, with at most blanks between.
FencedAt(s, j) ==
  /\ s[j] \in JsonBodies
  /\ \E i \in 1..(j - 1) : s[i] = "<fence>json" /\ \A m \in (i + 1)..(j - 1) : IsWs(s[m])
  /\ \E k \in (j + 1)..Len(s) : IsFence(s[k]) /\ \A m \in (j + 1)..(k - 1) : IsWs(s[m])

FencedObjects(s) == {j \in 1..Len(s) : FencedAt(s, j)}

\* Bodies that are valid JSON with type "calendar_event" and an eventDetails
\* field, and those among them whose eventDetails is an object.
CalendarBodies == {"{cal:iso}", "{cal:compactNeg}", "{cal:compactPos}", "{cal:noTimes}", "{cal:null}"}
CalendarObjectBodies == CalendarBodies \ {"{cal:null}"}

\* C9 as stated: a response that holds a fenced valid JSON object of type
\* calendar_event with an eventDetails field takes the calendar-event branch
\* with the parsed eventDetails of that object.
C9_AnyFencedCalendarObject ==
  clsPc = "done" =>
    \A j \in FencedObjects(clsIn) :
      clsIn[j] \in CalendarBodies =>
        /\ clsOut.branch \in {"auth", "calendar"}
        /\ clsOut.parsed = JSONparse(<<clsIn[j]>>).eventDetails

\* The body after the first "<fence>json" that is followed by a body.
FirstOpened(s) ==
  LET opened == {j \in 1..Len(s) :
                   /\ s[j] \in JsonBodies
                   /\ \E i \in 1..(j - 1) :
                        s[i] = "<fence>json" /\ \A m \in (i + 1)..(j - 1) : IsWs(s[m])}
  IN IF opened = {} THEN 0 ELSE Min(opened)

\* C9, amended: when the first "<fence>json" followed by an object holds, up
\* to its closing fence, exactly one valid JSON object of type calendar_event
\* whose eventDetails is an object, the response takes the calendar-event
\* branch (the authorization check, then normalization) with the parsed
\* eventDetails of that object.
C9_FirstFencedCalendarObject ==
  clsPc = "done" =>
    LET j == FirstOpened(clsIn)
    IN (j > 0 /\ FencedAt(clsIn, j) /\ clsIn[j] \in CalendarObjectBodies) =>
         /\ clsOut.branch = IF clsTokens = "tokA" THEN "calendar" ELSE "auth"
         /\ clsOut.parsed = JSONparse(<<clsIn[j]>>).eventDetails
         /\ clsOut.parsed.kind = "object"

C9_Witness ==
  /\ clsPc = "done"
  /\ Len(clsIn) = 5
  /\ FirstOpened(clsIn) = 4
  /\ FencedAt(clsIn, 4)
  /\ clsIn[4] = "{cal:iso}"
  /\ clsOut.branch = "calendar"

\* C10: a response with no fenced JSON object, or whose first fenced JSON
\* object fails to parse, is not of type calendar_event or has no eventDetails
\* object, takes the idea-text branch on the whole response: talkAs returns
\* without a calendar call, without the authorization text and without
\* throwing.
C10_FallbackToIdeaText ==
  clsPc = "done" =>
    LET F == FencedObjects(clsIn)
    IN (F = {} \/ clsIn[Min(F)] \notin CalendarObjectBodies) =>
         /\ clsOut.next = "return"
         /\ clsOut.branch = "idea"
         /\ ~clsOut.threw
         /\ clsOut.formatted = clsIn
         /\ clsOut.text # AuthMsg

C10_Witness ==
  /\ clsPc = "done"
  /\ FencedObjects(clsIn) = {2}
  /\ clsIn[2] = "{malformed}"
  /\ clsOut.branch = "idea"
  /\ clsOut.formatted = clsIn

\* The head of the k-th rendered record followed by the idea name.
RecordHead(k, name) ==
  <<"*", "*">> \o NumToks(k) \o <<".", " ", "Idea Name:", "*", "*", " ">> \o name

\* C11: for a text of 3 idea blocks, each introduced by "<number>. Idea Name:"
\* and carrying the 8 labels in order with content, formatResponse renders
\* exactly 3 records, numbered 1 to 3 in input order, with no "N/A"; a
\* preamble or emphasis marks before the first label add no record.
C11_ThreeBlocksThreeRecords ==
  fmtPc = "done" =>
    /\ RecordCount(fmtOut) = 3
    /\ \A k \in 1..3 : Includes(fmtOut, RecordHead(k, IdeaNames[k]))
    /\ ~Includes(fmtOut, NA)

\* C12: a failed attempt increments retryCount; the wait of 1000 * retryCount
\* ms follows only when retryCount < MAX_RETRIES afterwards; when the third
\* attempt fails the request ends Exhausted with no wait after it, and the
\* error text names the number of attempts and, when the last attempt ended
\* in an error, that error.
C12_NoWaitAfterLastFailure ==
  /\ \A i \in DOMAIN waits : waits[i] = BackoffMs(i) /\ i < MAX_RETRIES
  /\ pc = "backoff" =>
       /\ retryCount = LastAttempt
       /\ retryCount < MAX_RETRIES
       /\ Len(waits) = retryCount
  /\ Exhausted =>
       /\ retryCount = MAX_RETRIES
       /\ LastAttempt = MAX_RETRIES
       /\ Len(waits) = MAX_RETRIES - 1
       /\ Includes(responseText, NumToks(MAX_RETRIES))
       /\ \A message \in ModelErrors \cup CalendarErrors :
            Includes(attemptLog[LastAttempt].text, message) => Includes(responseText, message)

\* The position of the k-th rule "---" of an output, and the text of its
\* k-th rendered record.
RuleAt(out, k) ==
  CHOOSE i \in 1..Len(out) :
    out[i] = "---" /\ Cardinality({j \in 1..i : out[j] = "---"}) = k
RecordText(out, k) ==
  SubSeq(out, IF k = 1 THEN 1 ELSE RuleAt(out, k - 1) + 1, RuleAt(out, k))

\* The label, in any letter case, does not occur in the block.
LabelAbsent(block, label) == \A i \in 1..Len(block) : Canon(block[i]) # label

\* The block holds nothing between its start and the label "Concept:" or
\* its end.
NoIdeaName(block) ==
  LET t == Trim(block) IN t = <<>> \/ Canon(t[1]) = "Concept:"

\* C13: in every idea block, each of the 7 fields after the name whose label
\* is absent from the block is rendered as "N/A", and a block with no idea
\* name is rendered with the name "Idea k", k being its 1-based index.
C13_MissingFieldDefaults ==
  fmtPc = "done" =>
    LET blocks == ideaBlocks(fmtIn)
    IN /\ RecordCount(fmtOut) = Len(blocks)
       /\ \A k \in 1..Len(blocks) :
            /\ \A i \in 1..Len(FieldLabels) :
                 LabelAbsent(blocks[k], FieldLabels[i]) =>
                   Includes(RecordText(fmtOut, k), FieldHead(FieldLabels[i]) \o NA \o <<"\n">>)
            /\ NoIdeaName(blocks[k]) =>
                 Includes(RecordText(fmtOut, k),
                          RecordHead(k, <<"Idea", " ">> \o NumToks(k)) \o <<"\n">>)

\* The attempts of the request that invoked createCalendarEvent, and those
\* whose invocation returned an event.
CalendarCalls == {k \in DOMAIN attemptLog : attemptLog[k].cal # "none"}
EventsCreated == {k \in DOMAIN attemptLog : attemptLog[k].cal = "returned"}

\* C14: createCalendarEvent is invoked only by an attempt whose response
\* classified as calendar_event in a request with an access token, and only
\* while no other invocation of the request is pending; an attempt whose
\* invocation returned an event is the last attempt and the request ends
\* Succeeded on it, so a request creates at most one event.
C14_AtMostOneEvent ==
  /\ \A k \in CalendarCalls :
       /\ classify(attemptLog[k].raw).intent = "calendar_event"
       /\ HasAccessToken
       /\ attemptLog[k].cal = "pending" => (k = LastAttempt /\ pc = "awaitCalendar")
  /\ pc = "awaitCalendar" => attemptLog[LastAttempt].cal = "pending"
  /\ \A k \in EventsCreated :
       /\ k = LastAttempt
       /\ Succeeded
       /\ attemptLog[k].event \in CreatedEvents
  /\ Cardinality(EventsCreated) <= 1

C14_Witness ==
  /\ Succeeded
  /\ LastAttempt = 2
  /\ attemptLog[1].cal = "threw"
  /\ attemptLog[2].cal = "returned"
  /\ attemptLog[2].event.summary = FailureMarker
  /\ CalendarCalls = {1, 2}
  /\ EventsCreated = {2}

\* The state of request q that belongs to it alone.
TokensFixed(q) ==
  /\ reqs[q].userTokens = reqs[q].storeRead
  /\ \A i \in DOMAIN reqs[q].tokensUsed : reqs[q].tokensUsed[i] = reqs[q].storeRead
  /\ reqs[q].pc = "awaitModel" => Len(reqs[q].tokensUsed) = reqs[q].retryCount + 1
  /\ Len(reqs[q].waits) = reqs[q].retryCount

\* A step that changes the state of request q: it changes no other request,
\* it leaves the value the middleware read alone unless a new request
\* arrives in q's slot, and it does not write the store.
OwnStep(q) ==
  reqs'[q] # reqs[q] =>
    /\ \A o \in Requests \ {q} : reqs'[o] = reqs[o]
    /\ reqs[q].pc \notin {"idle", "done"} => reqs'[q].storeRead = reqs[q].storeRead
    /\ reqs[q].pc \in {"idle", "done"} => reqs'[q].storeRead = userTokensStore
    /\ userTokensStore' = userTokensStore

\* C15: a request reads the token store once, when it arrives, and every
\* talkAs call of the request gets that value, whatever an OAuth callback
\* writes into the store meanwhile; a write of the store changes no request,
\* and a step of one request changes no other request's retryCount, success
\* flag, candidate text or other state.
C15_TokensReadOnce ==
  /\ [](\A q \in Requests : TokensFixed(q))
  /\ [][/\ \A q \in Requests : OwnStep(q)
        /\ userTokensStore' # userTokensStore => reqs' = reqs]_vars

C15_Witness ==
  /\ userTokensStore = "tokB"
  /\ reqs["r1"].pc = "awaitModel"
  /\ reqs["r1"].retryCount = 2
  /\ reqs["r1"].tokensUsed = <<"undefined", "undefined", "undefined">>
  /\ reqs["r2"].pc = "awaitCalendar"
  /\ reqs["r2"].retryCount = 1
  /\ reqs["r2"].tokensUsed = <<"tokA", "tokA">>

====
